---- MODULE Spec2Model ----
(***************************************************************************)
(* Control-head core of OpenControlHead: PCM devices and their channels    *)
(* (pcm.py), the logical switches bound to them (switches.py), the host    *)
(* bridge (app.py) and the pattern engine (effects.py, patterns.py).       *)
(*                                                                         *)
(* A Python exception is modelled as the err field of an operation's       *)
(* result: "none" when the call returns, "KeyError" when a dict lookup     *)
(* (self.channels[channel], self._pcms[node_id]) raises.  An operation     *)
(* that raises keeps the assignments it made before the raising statement. *)
(***************************************************************************)
EXTENDS Integers, Sequences, FiniteSets

VARIABLES
    pcms,       \* PCMManager._pcms : node_id -> PCMDevice
    switches,   \* SwitchManager._switches : name -> LogicalSwitch
    last,       \* history: the operation that produced this state
    presses,    \* history: per switch, press() calls since registration (-1: disturbed)
    lastEv,     \* history: per switch, the last press/release event ("none": disturbed)
    engine,     \* PatternEngine: _patterns, _active, _channel_owners
    serial      \* SerialWorker and the Qt threads: lines read, posted events, running handlers

vars == <<pcms, switches, last, presses, lastEv, engine, serial>>

----------------------------------------------------------------------------
(* Bounds and input sets *)

NUM_CHANNELS == 26

\* cap on the counted press() calls of one CYCLE switch
MaxPresses == 3

NodeIds == {1, 2}
Names == {"A"}

\* channel indices handed to the device-level commands: both ends of
\* [0, NUM_CHANNELS) and the first index outside it on either side
ChannelInputs == {-1, 0, 1, NUM_CHANNELS - 1, NUM_CHANNELS}

\* the device-level commands that interleave with the switch operations
SharedInputs == {0, NUM_CHANNELS}

\* inbound CAN frames handed to PCMDevice.handle_can_message
Frames == {"status_a", "status_b"}

ChannelHealth == {"UNKNOWN", "OFF", "ON", "SHORT", "OPEN"}
SwitchType == {"TOGGLE", "MOMENTARY", "CYCLE"}
SwitchState == {"UNKNOWN", "OFF", "ON", "PARTIAL", "FAULT"}

\* label and pwm_capable keep their defaults in every binding, so two
\* bindings are equal exactly when they name the same (node_id, channel_index)
ChannelBinding(n, c) == [node_id |-> n, channel_index |-> c]

BindingChoices ==
    { <<>>,
      <<ChannelBinding(1, 0)>>,
      <<ChannelBinding(1, 0), ChannelBinding(1, 1)>>,
      <<ChannelBinding(2, 0), ChannelBinding(1, 0)>>,
      <<ChannelBinding(1, NUM_CHANNELS), ChannelBinding(1, 0)>> }

CycleChoices ==
    { <<>>,
      << <<>>, <<ChannelBinding(1, 0)>>, <<ChannelBinding(1, 0), ChannelBinding(1, 1)>> >>,
      << <<ChannelBinding(1, 1)>>, <<ChannelBinding(1, 0)>> >> }

\* the static configuration hands step lists to CYCLE switches only
SwitchConfigs ==
    { c \in [type : SwitchType, bindings : BindingChoices, cycles : CycleChoices] :
        c.type = "CYCLE" \/ c.cycles = <<>> }

----------------------------------------------------------------------------
(* pcm.py : ChannelState, PCMDevice *)

ChannelState(i) ==
    [index |-> i, health |-> "UNKNOWN", current_amps |-> 0,
     requested_on |-> FALSE, actual_on |-> FALSE]

PCMDevice(node) ==
    [node_id |-> node,
     channels |-> [i \in 0 .. NUM_CHANNELS - 1 |-> ChannelState(i)],
     online |-> FALSE]

ValidChannel(ch) == ch \in 0 .. NUM_CHANNELS - 1

\* results of operations on the device table P
Ok(P) == [pcms |-> P, err |-> "none"]
Raise(P, e) == [pcms |-> P, err |-> e]

set_channel_on_actual(P, node, ch) ==
    IF ValidChannel(ch)
    THEN Ok([P EXCEPT ![node].channels[ch].requested_on = TRUE,
                      ![node].channels[ch].actual_on = TRUE])
    ELSE Raise(P, "KeyError")

set_channel_on_dropped(P, node, ch) ==
    IF ValidChannel(ch) /\ P[node].online
    THEN Ok([P EXCEPT ![node].channels[ch].requested_on = TRUE])
    ELSE IF ValidChannel(ch) THEN Ok(P) ELSE Raise(P, "KeyError")

set_channel_on_clamped(P, node, ch) ==
    LET c == IF ch < 0 THEN 0 ELSE IF ch >= NUM_CHANNELS THEN NUM_CHANNELS - 1 ELSE ch
    IN  Ok([P EXCEPT ![node].channels[c].requested_on = TRUE])

\* PCMDevice.set_channel_on: self.channels[channel].requested_on = True
set_channel_on(P, node, ch) ==
    IF ValidChannel(ch)
    THEN Ok([P EXCEPT ![node].channels[ch].requested_on = TRUE])
    ELSE Raise(P, "KeyError")

\* PCMDevice.set_channel_off: self.channels[channel].requested_on = False
set_channel_off(P, node, ch) ==
    IF ValidChannel(ch)
    THEN Ok([P EXCEPT ![node].channels[ch].requested_on = FALSE])
    ELSE Raise(P, "KeyError")

\* PCMDevice.get_channel_state: self.channels[channel]
get_channel_state(P, node, ch) ==
    IF ValidChannel(ch)
    THEN [ret |-> P[node].channels[ch], err |-> "none"]
    ELSE [ret |-> ChannelState(-1), err |-> "KeyError"]

\* PCMDevice.toggle_channel: off when requested_on, else on
toggle_channel(P, node, ch) ==
    LET cur == get_channel_state(P, node, ch)
    IN  IF cur.err # "none" THEN Raise(P, cur.err)
        ELSE IF cur.ret.requested_on
             THEN set_channel_off(P, node, ch)
             ELSE set_channel_on(P, node, ch)

handle_can_message_flip(P, node, msg) ==
    [P EXCEPT ![node].channels[0].actual_on = ~@]

\* PCMDevice.handle_can_message: the body is "...", no field is assigned
handle_can_message(P, node, msg) == P

\* PCMManager.get_pcm: self._pcms.get(node_id); None is "not in DOMAIN"
HasPcm(P, node) == node \in DOMAIN P

PCMManager_set_channel_on_skip(P, node, ch) ==
    IF ~HasPcm(P, node) THEN Ok(P) ELSE set_channel_on(P, node, ch)

\* PCMManager.set_channel_on: pcm = self._pcms[node_id]; pcm.set_channel_on(channel)
PCMManager_set_channel_on(P, node, ch) ==
    IF ~HasPcm(P, node) THEN Raise(P, "KeyError") ELSE set_channel_on(P, node, ch)

\* PCMManager.set_channel_off: pcm = self._pcms[node_id]; pcm.set_channel_off(channel)
PCMManager_set_channel_off(P, node, ch) ==
    IF ~HasPcm(P, node) THEN Raise(P, "KeyError") ELSE set_channel_off(P, node, ch)

\* PCMManager.get_channel_state: pcm = self._pcms[node_id]; pcm.get_channel_state(channel)
PCMManager_get_channel_state(P, node, ch) ==
    IF ~HasPcm(P, node) THEN [ret |-> ChannelState(-1), err |-> "KeyError"]
    ELSE get_channel_state(P, node, ch)

----------------------------------------------------------------------------
(* switches.py : LogicalSwitch *)

LogicalSwitch(name, bindings, type, cycles) ==
    [name |-> name, bindings |-> bindings, switch_type |-> type,
     cycles |-> cycles, cycle_index |-> 0]

RECURSIVE CommandEach_stop(_, _, _)
CommandEach_stop(P, bs, v) ==
    IF bs = <<>> THEN Ok(P)
    ELSE LET b == Head(bs)
         IN  IF ~HasPcm(P, b.node_id) THEN Ok(P)
             ELSE LET r == IF v THEN set_channel_on(P, b.node_id, b.channel_index)
                           ELSE set_channel_off(P, b.node_id, b.channel_index)
                  IN  IF r.err # "none" THEN r
                      ELSE CommandEach_stop(r.pcms, Tail(bs), v)

\* the loop "for binding in ...: pcm = get_pcm(); if pcm is None: continue;
\* pcm.set_channel_on/off(binding.channel_index)", stopped by the first raise
RECURSIVE CommandEach(_, _, _)
CommandEach(P, bs, v) ==
    IF bs = <<>> THEN Ok(P)
    ELSE LET b == Head(bs)
         IN  IF ~HasPcm(P, b.node_id) THEN CommandEach(P, Tail(bs), v)
             ELSE LET r == IF v THEN set_channel_on(P, b.node_id, b.channel_index)
                           ELSE set_channel_off(P, b.node_id, b.channel_index)
                  IN  IF r.err # "none" THEN r
                      ELSE CommandEach(r.pcms, Tail(bs), v)

\* LogicalSwitch.on
on(P, sw) == CommandEach(P, sw.bindings, TRUE)

\* LogicalSwitch.off
off(P, sw) == CommandEach(P, sw.bindings, FALSE)

\* LogicalSwitch.iter_channel_states: bindings of unknown devices are skipped,
\* get_channel_state raises on an index that is no key of channels
IterRaises(P, sw) ==
    \E i \in DOMAIN sw.bindings :
        /\ HasPcm(P, sw.bindings[i].node_id)
        /\ ~ValidChannel(sw.bindings[i].channel_index)

iter_channel_states(P, sw) ==
    LET known(b) == HasPcm(P, b.node_id)
        bs == SelectSeq(sw.bindings, known)
    IN  [i \in DOMAIN bs |-> P[bs[i].node_id].channels[bs[i].channel_index]]

DeriveState_on_first(states) ==
    IF states = <<>> THEN "UNKNOWN"
    ELSE IF \A i \in DOMAIN states : ~states[i].actual_on THEN "OFF"
    ELSE IF \A i \in DOMAIN states : states[i].actual_on THEN "ON"
    ELSE IF \E i \in DOMAIN states : states[i].health \in {"SHORT", "OPEN"} THEN "FAULT"
    ELSE "PARTIAL"

DeriveState_empty_off(states) ==
    IF \E i \in DOMAIN states : states[i].health \in {"SHORT", "OPEN"} THEN "FAULT"
    ELSE IF \A i \in DOMAIN states : ~states[i].actual_on THEN "OFF"
    ELSE IF \A i \in DOMAIN states : states[i].actual_on THEN "ON"
    ELSE "PARTIAL"

DeriveState(states) ==
    IF states = <<>> THEN "UNKNOWN"
    ELSE IF \E i \in DOMAIN states : states[i].health \in {"SHORT", "OPEN"} THEN "FAULT"
    ELSE IF \A i \in DOMAIN states : ~states[i].actual_on THEN "OFF"
    ELSE IF \A i \in DOMAIN states : states[i].actual_on THEN "ON"
    ELSE "PARTIAL"

\* LogicalSwitch.get_state
get_state(P, sw) ==
    IF IterRaises(P, sw) THEN [ret |-> "-", err |-> "KeyError"]
    ELSE [ret |-> DeriveState(iter_channel_states(P, sw)), err |-> "none"]

toggle_unless_off(P, sw) ==
    LET cur == get_state(P, sw)
    IN  IF cur.err # "none" THEN Raise(P, cur.err)
        ELSE IF cur.ret = "OFF" THEN on(P, sw) ELSE off(P, sw)

\* LogicalSwitch.toggle
toggle(P, sw) ==
    LET cur == get_state(P, sw)
    IN  IF cur.err # "none" THEN Raise(P, cur.err)
        ELSE IF cur.ret = "ON" THEN off(P, sw) ELSE on(P, sw)

InStep(step, b) == \E j \in DOMAIN step : step[j] = b

cycle_no_off(P, sw) ==
    IF sw.cycles = <<>>
    THEN [pcms |-> P, err |-> "none", cycle_index |-> sw.cycle_index]
    ELSE LET idx == (sw.cycle_index + 1) % Len(sw.cycles)
             r1  == CommandEach(P, sw.cycles[idx + 1], TRUE)
         IN  [pcms |-> r1.pcms, err |-> r1.err, cycle_index |-> idx]

cycle_fallback_toggle(P, sw) ==
    IF sw.cycles = <<>>
    THEN LET r == toggle(P, sw)
         IN  [pcms |-> r.pcms, err |-> r.err, cycle_index |-> sw.cycle_index]
    ELSE LET idx  == (sw.cycle_index + 1) % Len(sw.cycles)
             step == sw.cycles[idx + 1]
             notin(b) == ~InStep(step, b)
             r1   == CommandEach(P, step, TRUE)
             r2   == IF r1.err # "none" THEN r1
                     ELSE CommandEach(r1.pcms, SelectSeq(sw.bindings, notin), FALSE)
         IN  [pcms |-> r2.pcms, err |-> r2.err, cycle_index |-> idx]

cycle_clamped(P, sw) ==
    IF sw.cycles = <<>>
    THEN [pcms |-> P, err |-> "none", cycle_index |-> sw.cycle_index]
    ELSE LET idx  == IF sw.cycle_index + 1 >= Len(sw.cycles)
                     THEN Len(sw.cycles) - 1 ELSE sw.cycle_index + 1
             step == sw.cycles[idx + 1]
             notin(b) == ~InStep(step, b)
             r1   == CommandEach(P, step, TRUE)
             r2   == IF r1.err # "none" THEN r1
                     ELSE CommandEach(r1.pcms, SelectSeq(sw.bindings, notin), FALSE)
         IN  [pcms |-> r2.pcms, err |-> r2.err, cycle_index |-> idx]

\* LogicalSwitch.cycle: result [pcms, err, cycle_index]
cycle(P, sw) ==
    IF sw.cycles = <<>>
    THEN [pcms |-> P, err |-> "none", cycle_index |-> sw.cycle_index]
    ELSE LET idx  == (sw.cycle_index + 1) % Len(sw.cycles)
             step == sw.cycles[idx + 1]
             notin(b) == ~InStep(step, b)
             r1   == CommandEach(P, step, TRUE)
             r2   == IF r1.err # "none" THEN r1
                     ELSE CommandEach(r1.pcms, SelectSeq(sw.bindings, notin), FALSE)
         IN  [pcms |-> r2.pcms, err |-> r2.err, cycle_index |-> idx]

\* LogicalSwitch.press: match self.switch_type
press(P, sw) ==
    CASE sw.switch_type = "TOGGLE" ->
            LET r == toggle(P, sw)
            IN  [pcms |-> r.pcms, err |-> r.err, cycle_index |-> sw.cycle_index]
      [] sw.switch_type = "MOMENTARY" ->
            LET r == on(P, sw)
            IN  [pcms |-> r.pcms, err |-> r.err, cycle_index |-> sw.cycle_index]
      [] sw.switch_type = "CYCLE" -> cycle(P, sw)

release_noop(P, sw) == Ok(P)

release_always_off(P, sw) == off(P, sw)

\* LogicalSwitch.release: MOMENTARY -> off(), anything else -> pass
release(P, sw) ==
    IF sw.switch_type = "MOMENTARY" THEN off(P, sw) ELSE Ok(P)

----------------------------------------------------------------------------
(* switches.py : SwitchManager convenience API.  A result is the device     *)
(* table, the switch table and the exception, if any.                       *)

Quiet(P, S) == [pcms |-> P, switches |-> S, err |-> "none"]

Commanded(r, S) == [pcms |-> r.pcms, switches |-> S, err |-> r.err]

\* sw.press() on the registered switch name: the cycle index moves with it
Pressed(P, S, name) ==
    LET r == press(P, S[name])
    IN  [pcms |-> r.pcms, switches |-> [S EXCEPT ![name].cycle_index = r.cycle_index],
         err |-> r.err]

SwitchManager_set_switch_on_strict(P, S, name) ==
    IF name \in DOMAIN S THEN Commanded(on(P, S[name]), S)
    ELSE [pcms |-> P, switches |-> S, err |-> "KeyError"]

\* SwitchManager.set_switch_on: sw = self._switches.get(name); if sw: sw.on()
SwitchManager_set_switch_on(P, S, name) ==
    IF name \in DOMAIN S THEN Commanded(on(P, S[name]), S) ELSE Quiet(P, S)

\* SwitchManager.set_switch_off
SwitchManager_set_switch_off(P, S, name) ==
    IF name \in DOMAIN S THEN Commanded(off(P, S[name]), S) ELSE Quiet(P, S)

\* SwitchManager.toggle_switch
SwitchManager_toggle_switch(P, S, name) ==
    IF name \in DOMAIN S THEN Commanded(toggle(P, S[name]), S) ELSE Quiet(P, S)

\* SwitchManager.get_switch_state: None for a name that is not registered
SwitchManager_get_switch_state(P, S, name) ==
    IF name \in DOMAIN S THEN get_state(P, S[name]) ELSE [ret |-> "None", err |-> "none"]

----------------------------------------------------------------------------
(* app.py : Bridge, constructed over a SwitchManager *)

\* Bridge.__init__: self._button_map
button_map == [b \in {"LIGHT", "HORN"} |-> IF b = "LIGHT" THEN "Front Lights" ELSE "Horn"]

\* the attributes of a SwitchManager instance that hasattr() can find
SwitchManagerAttrs ==
    {"_pcm", "_switches", "register_switch", "get_switch", "all_switches",
     "set_switch_on", "set_switch_off", "toggle_switch", "get_switch_state"}

NoSwitch == "None"

\* Bridge._get_switch: self._switches.get(name) when the manager has an
\* attribute "get"; the dict branch needs isinstance(self._switches, dict),
\* which a SwitchManager is not; otherwise None
Bridge_get_switch(S, name) ==
    IF "get" \in SwitchManagerAttrs /\ name \in DOMAIN S THEN name ELSE NoSwitch

\* Bridge.setSwitchState
Bridge_setSwitchState(P, S, name, v) ==
    LET sw == Bridge_get_switch(S, name)
    IN  IF sw = NoSwitch THEN Quiet(P, S)
        ELSE Commanded(IF v THEN on(P, S[sw]) ELSE off(P, S[sw]), S)

\* Bridge.toggleSwitch
Bridge_toggleSwitch(P, S, name) ==
    LET sw == Bridge_get_switch(S, name)
    IN  IF sw = NoSwitch THEN Quiet(P, S) ELSE Commanded(toggle(P, S[sw]), S)

\* Bridge.pressSwitch
Bridge_pressSwitch(P, S, name) ==
    LET sw == Bridge_get_switch(S, name)
    IN  IF sw = NoSwitch THEN Quiet(P, S) ELSE Pressed(P, S, sw)

\* Bridge.releaseSwitch
Bridge_releaseSwitch(P, S, name) ==
    LET sw == Bridge_get_switch(S, name)
    IN  IF sw = NoSwitch THEN Quiet(P, S) ELSE Commanded(release(P, S[sw]), S)

\* Bridge.handlePicoButton: unmapped button -> return; unknown switch ->
\* return; press() when pressed, release() otherwise
Bridge_handlePicoButton(P, S, button, pressed) ==
    IF button \notin DOMAIN button_map THEN Quiet(P, S)
    ELSE LET sw == Bridge_get_switch(S, button_map[button])
         IN  IF sw = NoSwitch THEN Quiet(P, S)
             ELSE IF pressed THEN Pressed(P, S, sw)
             ELSE Commanded(release(P, S[sw]), S)

----------------------------------------------------------------------------
(* patterns.py : PatternTarget, BlinkPattern, WigWagPattern *)

PatternTarget(n, c) == [type |-> "CHANNEL", node_id |-> n, channel_index |-> c]

\* BlinkPattern.__init__; times are integers on a grid of 0.1 s and the duty
\* cycle is in tenths (period_s = 10 is 1.0 s, duty_cycle = 5 is 0.5)
BlinkPattern(name, targets, period_s, duty_cycle, phase_offset_s) ==
    [name |-> name, kind |-> "Blink", targets |-> targets, period_s |-> period_s,
     duty_cycle |-> duty_cycle, phase_offset_s |-> phase_offset_s]

\* WigWagPattern.__init__
WigWagPattern(name, a, b, interval_s) ==
    [name |-> name, kind |-> "WigWag", group_a |-> a, group_b |-> b,
     interval_s |-> interval_s]

\* BlinkPattern.get_targets: self._targets; WigWagPattern.get_targets:
\* self._group_a + self._group_b
get_targets(pat) ==
    IF pat.kind = "Blink" THEN pat.targets ELSE pat.group_a \o pat.group_b

\* BlinkPattern.evaluate / WigWagPattern.evaluate: "return {}", the desired
\* state per target is the empty dict at every time
evaluate(pat, now) == [t \in {} |-> FALSE]

evaluate_call_advancing(pat, now) ==
    [ret |-> evaluate(pat, now),
     self |-> IF pat.kind = "Blink"
              THEN [pat EXCEPT !.phase_offset_s = (@ + 1) % pat.period_s]
              ELSE [pat EXCEPT !.group_a = pat.group_b, !.group_b = pat.group_a]]

\* one call pattern.evaluate(now_s): the mapping returned and the pattern
\* object after the call; neither body assigns to self
evaluate_call(pat, now) == [ret |-> evaluate(pat, now), self |-> pat]

----------------------------------------------------------------------------
(* effects.py : ChannelOwner, PatternEngine.  The dicts _patterns and      *)
(* _active keep insertion order: each is a sequence of pattern objects     *)
(* with distinct names.                                                    *)

ChannelOwner(owner_id, value) == [owner_id |-> owner_id, value |-> value]

DictHas(d, name) == \E i \in DOMAIN d : d[i].name = name

DictGet(d, name) == d[CHOOSE i \in DOMAIN d : d[i].name = name]

\* d[pat.name] = pat: an existing key keeps its place, a new key goes last
DictSet(d, pat) ==
    IF DictHas(d, pat.name)
    THEN [i \in DOMAIN d |-> IF d[i].name = pat.name THEN pat ELSE d[i]]
    ELSE Append(d, pat)

\* del d[name]
DictDel(d, name) ==
    LET other(q) == q.name # name
    IN  SelectSeq(d, other)

NoOwners == [k \in {} |-> ChannelOwner("-", FALSE)]

\* PatternEngine.__init__
PatternEngine == [patterns |-> <<>>, active |-> <<>>, channel_owners |-> NoOwners]

\* PatternEngine.register_pattern: self._patterns[pattern.name] = pattern
register_pattern(E, pat) == [E EXCEPT !.patterns = DictSet(@, pat)]

start_pattern_blind(E, name) ==
    IF ~DictHas(E.patterns, name)
    THEN [E EXCEPT !.active = DictSet(@, BlinkPattern(name, <<>>, 10, 5, 0))]
    ELSE [E EXCEPT !.active = DictSet(@, DictGet(E.patterns, name))]

\* PatternEngine.start_pattern: an unknown name is logged and nothing starts
start_pattern(E, name) ==
    IF ~DictHas(E.patterns, name) THEN E
    ELSE [E EXCEPT !.active = DictSet(@, DictGet(E.patterns, name))]

stop_pattern_release(E, name) ==
    IF DictHas(E.active, name)
    THEN [E EXCEPT !.active = DictDel(@, name),
                   !.channel_owners =
                       [k \in {j \in DOMAIN @ : @[j].owner_id # <<"pattern", name>>} |-> @[k]]]
    ELSE E

\* PatternEngine.stop_pattern: del self._active[name]; no ownership cleanup
stop_pattern(E, name) ==
    IF DictHas(E.active, name) THEN [E EXCEPT !.active = DictDel(@, name)] ELSE E

stop_all_keep_owners(E) == [E EXCEPT !.active = <<>>]

\* PatternEngine.stop_all: both _active and _channel_owners are cleared
stop_all(E) == [E EXCEPT !.active = <<>>, !.channel_owners = NoOwners]

\* the (node_id, channel_index) pairs a pattern targets
Targets(pat) ==
    { <<get_targets(pat)[i].node_id, get_targets(pat)[i].channel_index>> :
          i \in DOMAIN get_targets(pat) }

\* the active patterns that target k
Claimants(E, k) == { i \in DOMAIN E.active : k \in Targets(E.active[i]) }

\* a tick that commands every claimed channel of a registered device on,
\* whatever the ownership table recorded
tick_always(E, P, now) ==
    LET claimed(k) == Claimants(E, k) # {} /\ k[1] \in DOMAIN P
        ks == SelectSeq(<< <<1, 0>>, <<1, 1>> >>, claimed)
    IN  [engine |-> E,
         pcms |-> [n \in DOMAIN P |->
                     [P[n] EXCEPT !.channels =
                         [i \in DOMAIN @ |->
                             IF claimed(<<n, i>>)
                             THEN [@[i] EXCEPT !.requested_on = TRUE] ELSE @[i]]]],
         commands |-> [i \in DOMAIN ks |->
                          [node_id |-> ks[i][1], channel_index |-> ks[i][2], value |-> TRUE]]]

\* PatternEngine.tick: now_s is defaulted, then the body is "...": no pattern
\* is evaluated, no owner is recorded and no channel is commanded; commands
\* lists the calls made to PCMManager / SwitchManager
tick(E, P, now) == [engine |-> E, pcms |-> P, commands |-> <<>>]

----------------------------------------------------------------------------
(* History bookkeeping: which switches an operation disturbed *)

Range(f) == {f[i] : i \in DOMAIN f}

Req(P, b) == P[b.node_id].channels[b.channel_index].requested_on

\* bindings that name a channel of a registered device
Live(P, b) == HasPcm(P, b.node_id) /\ ValidChannel(b.channel_index)

BoundChannels(P, sw) == {b \in Range(sw.bindings) : Live(P, b)}

\* every binding and every step entry names a channel of a registered device
AllLive(P, sw) ==
    /\ \A b \in Range(sw.bindings) : Live(P, b)
    /\ \A i \in DOMAIN sw.cycles : \A b \in Range(sw.cycles[i]) : Live(P, b)

Untouched(P, sw) == \A b \in BoundChannels(P, sw) : ~Req(P, b)

\* P2 differs from P on a channel bound to sw (or on whether its device exists)
Disturbed(P, P2, sw) ==
    \E b \in Range(sw.bindings) :
        \/ HasPcm(P, b.node_id) # HasPcm(P2, b.node_id)
        \/ /\ Live(P, b) /\ Live(P2, b)
           /\ Req(P, b) # Req(P2, b)

NextPresses(op, actor, err, P2, S2) ==
    [n \in DOMAIN S2 |->
        IF n \notin DOMAIN switches \/ (op = "register_switch" /\ n = actor)
        THEN IF S2[n].switch_type = "CYCLE" /\ Untouched(P2, S2[n]) THEN 0 ELSE -1
        ELSE IF presses[n] = -1 THEN -1
        ELSE IF n = actor /\ op = "press"
             THEN IF err = "none" THEN presses[n] + 1 ELSE -1
        ELSE IF S2[n].cycle_index # switches[n].cycle_index THEN -1
        ELSE IF Disturbed(pcms, P2, switches[n]) THEN -1
        ELSE presses[n]]

NextLastEv(op, actor, err, P2, S2) ==
    [n \in DOMAIN S2 |->
        IF n \notin DOMAIN switches \/ (op = "register_switch" /\ n = actor)
        THEN "none"
        ELSE IF n = actor /\ op \in {"press", "release"}
             THEN IF err = "none" /\ S2[n].switch_type = "MOMENTARY" THEN op ELSE "none"
        ELSE IF Disturbed(pcms, P2, switches[n]) THEN "none"
        ELSE lastEv[n]]

Op(op, sw, node, ch, err, ret) ==
    [op |-> op, sw |-> sw, node |-> node, ch |-> ch, err |-> err, ret |-> ret]

\* new device table, new switch table, history
Moved(op, sw, node, ch, err, ret, P2, S2) ==
    /\ pcms' = P2
    /\ switches' = S2
    /\ last' = Op(op, sw, node, ch, err, ret)
    /\ presses' = NextPresses(op, sw, err, P2, S2)
    /\ lastEv' = NextLastEv(op, sw, err, P2, S2)

\* the common tail of every action outside the pattern engine
Step(op, sw, node, ch, err, ret, P2, S2) ==
    /\ Moved(op, sw, node, ch, err, ret, P2, S2)
    /\ engine' = engine
    /\ serial' = serial

\* the common tail of the pattern engine's actions; name is the pattern
\* named, and the history keeps now_s of a tick in the ch field
EngineStep(op, name, now, ret, E2, P2) ==
    /\ Moved(op, name, 0, now, "none", ret, P2, switches)
    /\ engine' = E2
    /\ serial' = serial

\* the common tail of the serial reader's and the event loop's actions
SerialStep(op, sw, err, ret, P2, S2, X2) ==
    /\ Moved(op, sw, 0, 0, err, ret, P2, S2)
    /\ engine' = engine
    /\ serial' = X2

----------------------------------------------------------------------------
(* serial_worker.py : _Reader, SerialWorker, and the Qt threads they live in *)

\* lines the reader may read: at most MaxLines per behaviour
MaxLines == 3

Threads == {"main", "reader"}

\* the thread each QObject lives in: _Reader is moved to SerialWorker._thread;
\* SerialWorker and Bridge are constructed by make_engine on the main thread
\* and are never moved
Affinity == [reader |-> "reader", worker |-> "main", bridge |-> "main"]

QtConnection_direct(emitting, receiver) == "direct"

\* signal.connect(slot) with the default connection type: the slot is called
\* at once when the signal is emitted on the receiver's thread, and is posted
\* to the receiver's event loop otherwise
QtConnection(emitting, receiver) ==
    IF emitting = Affinity[receiver] THEN "direct" ELSE "queued"

\* a line is the sequence of its words; the words of the form key=value
KeyValueWords == {"t=5"}

SerialLines ==
    { <<"PRESS", "LIGHT">>, <<"RELEASE", "LIGHT">>,
      <<"RELEASE", "HORN", "t=5">>, <<"BOOT">> }

\* the last word of the name group (.+?): the shortest name such that only
\* key=value fields follow it, and at least one word
NameEnd(line) ==
    LET named == {i \in 2..Len(line) : line[i] \notin KeyValueWords}
    IN  IF named = {} THEN 2 ELSE CHOOSE i \in named : \A j \in named : j <= i

\* a name of one word is that word; a name of several words is kept as one token
NameOf(line) == IF NameEnd(line) = 2 THEN line[2] ELSE "several words"

\* SerialWorker._on_line: the regular expression matches PRESS or RELEASE
\* followed by a name; the result is the buttonEvent it emits, if any
on_line(line) ==
    IF Len(line) >= 2 /\ line[1] \in {"PRESS", "RELEASE"}
    THEN [emit |-> TRUE, name |-> NameOf(line), pressed |-> (line[1] = "PRESS")]
    ELSE [emit |-> FALSE, name |-> "-", pressed |-> FALSE]

\* what a thread is running, or what waits in the main event loop: a lineRead
\* delivery ("line"), a buttonEvent delivery ("button"), a slot called by the
\* QML user interface ("host"), or nothing ("idle")
Handler(kind, line, name, pressed) ==
    [kind |-> kind, line |-> line, name |-> name, pressed |-> pressed]

Idle == Handler("idle", <<>>, "-", FALSE)

\* SerialWorker after start(): nothing read, nothing posted, nothing running
SerialWorker ==
    [ readLog |-> <<>>,                     \* history: the lines read, in order
      events  |-> <<>>,                     \* the posted events of the main event loop
      running |-> [t \in Threads |-> Idle], \* the handler each thread is in
      applied |-> <<>> ]                    \* history: the button events handled, in order

----------------------------------------------------------------------------
(* Initial state: PCMManager(can) and SwitchManager(pcm_manager), both empty *)

Init ==
    /\ pcms = [n \in {} |-> PCMDevice(n)]
    /\ switches = [n \in {} |-> LogicalSwitch(n, <<>>, "TOGGLE", <<>>)]
    /\ last = Op("init", "-", 0, 0, "none", "-")
    /\ presses = [n \in {} |-> 0]
    /\ lastEv = [n \in {} |-> "none"]
    /\ engine = PatternEngine
    /\ serial = SerialWorker

----------------------------------------------------------------------------
(* Registration *)

\* PCMManager.add_pcm: self._pcms[node_id] = PCMDevice(...)
add_pcm(node) ==
    Step("add_pcm", "-", node, 0, "none", "-",
         [n \in DOMAIN pcms \cup {node} |-> IF n = node THEN PCMDevice(node) ELSE pcms[n]],
         switches)

\* SwitchManager.register_switch: self._switches[name] = LogicalSwitch(...)
register_switch(name, bindings, type, cycles) ==
    Step("register_switch", name, 0, 0, "none", "-", pcms,
         [n \in DOMAIN switches \cup {name} |->
             IF n = name THEN LogicalSwitch(name, bindings, type, cycles)
             ELSE switches[n]])

----------------------------------------------------------------------------
(* Device-level operations, called on a registered PCMDevice *)

SetChannelOn(node, ch) ==
    LET r == set_channel_on(pcms, node, ch)
    IN  Step("set_channel_on", "-", node, ch, r.err, "-", r.pcms, switches)

SetChannelOff(node, ch) ==
    LET r == set_channel_off(pcms, node, ch)
    IN  Step("set_channel_off", "-", node, ch, r.err, "-", r.pcms, switches)

ToggleChannel(node, ch) ==
    LET r == toggle_channel(pcms, node, ch)
    IN  Step("toggle_channel", "-", node, ch, r.err, "-", r.pcms, switches)

HandleCanMessage(node, msg) ==
    Step("handle_can_message", "-", node, 0, "none", "-",
         handle_can_message(pcms, node, msg), switches)

----------------------------------------------------------------------------
(* PCMManager convenience helpers, called with any node_id *)

ManagerSetChannelOn(node, ch) ==
    LET r == PCMManager_set_channel_on(pcms, node, ch)
    IN  Step("PCMManager.set_channel_on", "-", node, ch, r.err, "-", r.pcms, switches)

ManagerSetChannelOff(node, ch) ==
    LET r == PCMManager_set_channel_off(pcms, node, ch)
    IN  Step("PCMManager.set_channel_off", "-", node, ch, r.err, "-", r.pcms, switches)

ManagerGetChannelState(node, ch) ==
    LET r == PCMManager_get_channel_state(pcms, node, ch)
    IN  Step("PCMManager.get_channel_state", "-", node, ch, r.err, "-", pcms, switches)

----------------------------------------------------------------------------
(* Switch operations, called on a registered LogicalSwitch *)

WithIndex(name, idx) == [switches EXCEPT ![name].cycle_index = idx]

On(name) ==
    LET r == on(pcms, switches[name])
    IN  Step("on", name, 0, 0, r.err, "-", r.pcms, switches)

Off(name) ==
    LET r == off(pcms, switches[name])
    IN  Step("off", name, 0, 0, r.err, "-", r.pcms, switches)

Toggle(name) ==
    LET r == toggle(pcms, switches[name])
    IN  Step("toggle", name, 0, 0, r.err, get_state(pcms, switches[name]).ret,
             r.pcms, switches)

Cycle(name) ==
    LET r == cycle(pcms, switches[name])
    IN  Step("cycle", name, 0, 0, r.err, "-", r.pcms, WithIndex(name, r.cycle_index))

Press(name) ==
    LET r == press(pcms, switches[name])
    IN  /\ presses[name] < MaxPresses
        /\ Step("press", name, 0, 0, r.err, get_state(pcms, switches[name]).ret,
                r.pcms, WithIndex(name, r.cycle_index))

Release(name) ==
    LET r == release(pcms, switches[name])
    IN  Step("release", name, 0, 0, r.err, "-", r.pcms, switches)

GetState(name) ==
    LET r == get_state(pcms, switches[name])
    IN  Step("get_state", name, 0, 0, r.err, r.ret, pcms, switches)

----------------------------------------------------------------------------
(* Host and input operations, addressed by a name that may be unknown *)

SetSwitchOn(name) ==
    LET r == SwitchManager_set_switch_on(pcms, switches, name)
    IN  Step("SwitchManager.set_switch_on", name, 0, 0, r.err, "-", r.pcms, r.switches)

SetSwitchOff(name) ==
    LET r == SwitchManager_set_switch_off(pcms, switches, name)
    IN  Step("SwitchManager.set_switch_off", name, 0, 0, r.err, "-", r.pcms, r.switches)

ToggleSwitch(name) ==
    LET r == SwitchManager_toggle_switch(pcms, switches, name)
    IN  Step("SwitchManager.toggle_switch", name, 0, 0, r.err, "-", r.pcms, r.switches)

GetSwitchState(name) ==
    LET r == SwitchManager_get_switch_state(pcms, switches, name)
    IN  Step("SwitchManager.get_switch_state", name, 0, 0, r.err, r.ret, pcms, switches)

BridgeSetSwitchState(name, v) ==
    LET r == Bridge_setSwitchState(pcms, switches, name, v)
    IN  Step("Bridge.setSwitchState", name, 0, 0, r.err, IF v THEN "on" ELSE "off",
             r.pcms, r.switches)

BridgeToggleSwitch(name) ==
    LET r == Bridge_toggleSwitch(pcms, switches, name)
    IN  Step("Bridge.toggleSwitch", name, 0, 0, r.err, "-", r.pcms, r.switches)

BridgePressSwitch(name) ==
    LET r == Bridge_pressSwitch(pcms, switches, name)
    IN  Step("Bridge.pressSwitch", name, 0, 0, r.err, "-", r.pcms, r.switches)

BridgeReleaseSwitch(name) ==
    LET r == Bridge_releaseSwitch(pcms, switches, name)
    IN  Step("Bridge.releaseSwitch", name, 0, 0, r.err, "-", r.pcms, r.switches)

\* the history keeps the button name in sw and the pressed flag in ret
HandlePicoButton(button, pressed) ==
    LET r == Bridge_handlePicoButton(pcms, switches, button, pressed)
    IN  Step("Bridge.handlePicoButton", button, 0, 0, r.err,
             IF pressed THEN "pressed" ELSE "released", r.pcms, r.switches)

----------------------------------------------------------------------------
(* Pattern engine operations *)

RegisterPattern(pat) ==
    EngineStep("register_pattern", pat.name, 0, "-", register_pattern(engine, pat), pcms)

StartPattern(name) ==
    EngineStep("start_pattern", name, 0,
               IF DictHas(engine.patterns, name) THEN "started" ELSE "unknown",
               start_pattern(engine, name), pcms)

StopPattern(name) ==
    EngineStep("stop_pattern", name, 0,
               IF DictHas(engine.active, name) THEN "stopped" ELSE "not active",
               stop_pattern(engine, name), pcms)

\* the history keeps what the engine held before: ownership records
\* ("held"), active patterns only ("active") or nothing ("idle")
StopAll ==
    EngineStep("stop_all", "-", 0,
               IF DOMAIN engine.channel_owners # {} THEN "held"
               ELSE IF engine.active # <<>> THEN "active" ELSE "idle",
               stop_all(engine), pcms)

\* the history keeps whether the tick follows another tick
Tick(now) ==
    LET r == tick(engine, pcms, now)
    IN  EngineStep("tick", "-", now, IF last.op = "tick" THEN "again" ELSE "first",
                   r.engine, r.pcms)

\* pattern.evaluate(now_s) on the pattern object registered under name; the
\* active set holds the same object when it was started from it
Evaluate(name, now) ==
    LET pat == DictGet(engine.patterns, name)
        r == evaluate_call(pat, now)
    IN  /\ DictHas(engine.patterns, name)
        /\ EngineStep("evaluate", name, now, "-",
                      [engine EXCEPT
                          !.patterns = DictSet(@, r.self),
                          !.active = IF DictHas(@, name) /\ DictGet(@, name) = pat
                                     THEN DictSet(@, r.self) ELSE @],
                      pcms)

----------------------------------------------------------------------------

DeviceNext(chs) ==
    \/ \E node \in NodeIds : add_pcm(node)
    \/ \E node \in DOMAIN pcms, ch \in chs : SetChannelOn(node, ch)
    \/ \E node \in DOMAIN pcms, ch \in chs : SetChannelOff(node, ch)
    \/ \E node \in DOMAIN pcms, ch \in chs : ToggleChannel(node, ch)
    \/ \E node \in DOMAIN pcms, msg \in Frames : HandleCanMessage(node, msg)

SwitchNext ==
    \/ \E name \in Names, c \in SwitchConfigs :
           register_switch(name, c.bindings, c.type, c.cycles)
    \/ \E name \in DOMAIN switches : On(name)
    \/ \E name \in DOMAIN switches : Off(name)
    \/ \E name \in DOMAIN switches : Toggle(name)
    \/ \E name \in DOMAIN switches : Cycle(name)
    \/ \E name \in DOMAIN switches : Press(name)
    \/ \E name \in DOMAIN switches : Release(name)
    \/ \E name \in DOMAIN switches : GetState(name)

\* devices and switches together
Next == DeviceNext(SharedInputs) \/ SwitchNext

Spec == Init /\ [][Next]_vars

\* the devices alone, over every channel input
NextDevice == DeviceNext(ChannelInputs)

SpecDevice == Init /\ [][NextDevice]_vars

----------------------------------------------------------------------------
(* get_state, toggle and press as functions of the channel status: Init     *)
(* draws health and actual_on of channels 0 and 1 of device 1 from every    *)
(* value of their types; device 2 stays unknown.                            *)

WithStatus(dev, h0, a0, h1, a1) ==
    [dev EXCEPT !.channels[0].health = h0, !.channels[0].actual_on = a0,
                !.channels[1].health = h1, !.channels[1].actual_on = a1]

InitStatus ==
    /\ \/ pcms = [n \in {} |-> PCMDevice(n)]
       \/ \E h0 \in ChannelHealth, h1 \in ChannelHealth, a0 \in BOOLEAN, a1 \in BOOLEAN :
              pcms = [n \in {1} |-> WithStatus(PCMDevice(n), h0, a0, h1, a1)]
    /\ switches = [n \in {} |-> LogicalSwitch(n, <<>>, "TOGGLE", <<>>)]
    /\ last = Op("init", "-", 0, 0, "none", "-")
    /\ presses = [n \in {} |-> 0]
    /\ lastEv = [n \in {} |-> "none"]
    /\ engine = PatternEngine
    /\ serial = SerialWorker

NextStatus ==
    \/ \E name \in Names \ DOMAIN switches, c \in SwitchConfigs :
           register_switch(name, c.bindings, c.type, c.cycles)
    \/ \E name \in DOMAIN switches : On(name)
    \/ \E name \in DOMAIN switches : Off(name)
    \/ \E name \in DOMAIN switches : Toggle(name)
    \/ \E name \in DOMAIN switches : Press(name)
    \/ \E name \in DOMAIN switches : Release(name)
    \/ \E name \in DOMAIN switches : GetState(name)

SpecStatus == InitStatus /\ [][NextStatus]_vars

----------------------------------------------------------------------------
(* The device registry: registration and the helpers addressed by node_id *)

NextManager ==
    \/ \E node \in NodeIds : add_pcm(node)
    \/ \E node \in NodeIds, ch \in ChannelInputs : ManagerSetChannelOn(node, ch)
    \/ \E node \in NodeIds, ch \in ChannelInputs : ManagerSetChannelOff(node, ch)
    \/ \E node \in NodeIds, ch \in ChannelInputs : ManagerGetChannelState(node, ch)

SpecManager == Init /\ [][NextManager]_vars

----------------------------------------------------------------------------
(* The host (QML) and the button input over the switches of the static     *)
(* configuration: "Front Lights" is registered, "Horn" may never be, and   *)
(* "SIREN" is a button the map does not know.                              *)

HostNames == {"Front Lights", "Horn"}
Buttons == {"LIGHT", "HORN", "SIREN"}

HostConfigs ==
    { c \in SwitchConfigs :
        \/ c.type = "MOMENTARY" /\ c.bindings = <<ChannelBinding(1, 0)>>
        \/ c.type = "TOGGLE" /\ c.bindings = <<ChannelBinding(1, 0), ChannelBinding(1, 1)>>
        \/ c.type = "CYCLE" /\ c.bindings = <<ChannelBinding(1, 0), ChannelBinding(1, 1)>>
              /\ Len(c.cycles) = 2 }

NextHost ==
    \/ add_pcm(1)
    \/ \E c \in HostConfigs : register_switch("Front Lights", c.bindings, c.type, c.cycles)
    \/ \E name \in HostNames : SetSwitchOn(name)
    \/ \E name \in HostNames : SetSwitchOff(name)
    \/ \E name \in HostNames : ToggleSwitch(name)
    \/ \E name \in HostNames : GetSwitchState(name)
    \/ \E name \in HostNames, v \in BOOLEAN : BridgeSetSwitchState(name, v)
    \/ \E name \in HostNames : BridgeToggleSwitch(name)
    \/ \E name \in HostNames : BridgePressSwitch(name)
    \/ \E name \in HostNames : BridgeReleaseSwitch(name)
    \/ \E button \in Buttons, pressed \in BOOLEAN : HandlePicoButton(button, pressed)

SpecHost == Init /\ [][NextHost]_vars

----------------------------------------------------------------------------
(* The serial reader thread, the main event loop and the host user interface *)

\* handlePicoButton(name, pressed) has run: the switches it commanded and the log
Handled(X, t, name, pressed) ==
    [X EXCEPT !.running[t] = Idle,
              !.applied = Append(@, [name |-> name, pressed |-> pressed])]

\* _Reader.run: one more line is complete and lineRead is emitted; the slot
\* _on_line is posted to the receiver's thread, or entered by the reader
ReaderRun(line) ==
    /\ Len(serial.readLog) < MaxLines
    /\ serial.running["reader"].kind = "idle"
    /\ LET t   == Handler("line", line, "-", FALSE)
           X1  == [serial EXCEPT !.readLog = Append(@, line)]
       IN  SerialStep("_Reader.run", "-", "none", "-", pcms, switches,
                      IF QtConnection(Affinity.reader, "worker") = "queued"
                      THEN [X1 EXCEPT !.events = Append(@, t)]
                      ELSE [X1 EXCEPT !.running["reader"] = t])

\* app.exec(): the idle main thread takes the oldest posted event
EventLoopTake ==
    /\ serial.running["main"].kind = "idle"
    /\ serial.events # <<>>
    /\ SerialStep("exec", "-", "none", "-", pcms, switches,
                  [serial EXCEPT !.running["main"] = Head(serial.events),
                                 !.events = Tail(@)])

\* the QML user interface calls Bridge.pressSwitch or Bridge.releaseSwitch: a
\* user-interface event, entered by the idle main thread
HostCall(name, pressed) ==
    /\ serial.running["main"].kind = "idle"
    /\ SerialStep("exec", name, "none", "-", pcms, switches,
                  [serial EXCEPT !.running["main"] = Handler("host", <<>>, name, pressed)])

\* the handler thread t is in runs to its end: _on_line parses the line and
\* emits buttonEvent, which calls handlePicoButton at once or posts it;
\* handlePicoButton and the host slots command the switch
Finish(t) ==
    LET job == serial.running[t]
        ev   == on_line(job.line)
    IN  /\ job.kind # "idle"
        /\ CASE job.kind = "host" ->
                   LET r == IF job.pressed
                            THEN Bridge_pressSwitch(pcms, switches, job.name)
                            ELSE Bridge_releaseSwitch(pcms, switches, job.name)
                   IN  SerialStep(IF job.pressed THEN "Bridge.pressSwitch"
                                  ELSE "Bridge.releaseSwitch",
                                  job.name, r.err, "-", r.pcms, r.switches,
                                  [serial EXCEPT !.running[t] = Idle])
             [] job.kind = "button" ->
                   LET r == Bridge_handlePicoButton(pcms, switches, job.name, job.pressed)
                   IN  SerialStep("Bridge.handlePicoButton", job.name, r.err,
                                  IF job.pressed THEN "pressed" ELSE "released",
                                  r.pcms, r.switches,
                                  Handled(serial, t, job.name, job.pressed))
             [] job.kind = "line" /\ ~ev.emit ->
                   SerialStep("_on_line", "-", "none", "unhandled", pcms, switches,
                              [serial EXCEPT !.running[t] = Idle])
             [] job.kind = "line" /\ ev.emit /\ QtConnection(t, "bridge") = "queued" ->
                   SerialStep("_on_line", ev.name, "none", "posted", pcms, switches,
                              [serial EXCEPT !.running[t] = Idle,
                                             !.events = Append(@, Handler("button", <<>>,
                                                                       ev.name, ev.pressed))])
             [] job.kind = "line" /\ ev.emit /\ QtConnection(t, "bridge") = "direct" ->
                   LET r == Bridge_handlePicoButton(pcms, switches, ev.name, ev.pressed)
                   IN  SerialStep("Bridge.handlePicoButton", ev.name, r.err,
                                  IF ev.pressed THEN "pressed" ELSE "released",
                                  r.pcms, r.switches,
                                  Handled(serial, t, ev.name, ev.pressed))

NextSerial ==
    \/ add_pcm(1)
    \/ register_switch("Front Lights", <<ChannelBinding(1, 0)>>, "MOMENTARY", <<>>)
    \/ \E line \in SerialLines : ReaderRun(line)
    \/ EventLoopTake
    \/ \E pressed \in BOOLEAN : HostCall("Front Lights", pressed)
    \/ \E t \in Threads : Finish(t)

SpecSerial == Init /\ [][NextSerial]_vars

----------------------------------------------------------------------------
(* The pattern engine over one device and one switch: two patterns that    *)
(* share channel (1, 0), manual presses, and the periodic tick.            *)

PatternNames == {"P1", "P2", "P3"}
Times == {0, 1}

\* "P3" is never registered
PatternChoices ==
    { BlinkPattern("P1", <<PatternTarget(1, 0)>>, 10, 5, 0),
      BlinkPattern("P2", <<PatternTarget(1, 0), PatternTarget(1, 1)>>, 10, 5, 0),
      WigWagPattern("P2", <<PatternTarget(1, 1)>>, <<PatternTarget(1, 0)>>, 5) }

EngineConfigs ==
    { c \in SwitchConfigs :
        /\ c.type \in {"MOMENTARY", "TOGGLE"}
        /\ c.bindings = <<ChannelBinding(1, 0)>> }

NextEngine ==
    \/ add_pcm(1)
    \/ \E name \in Names \ DOMAIN switches, c \in EngineConfigs :
           register_switch(name, c.bindings, c.type, c.cycles)
    \/ \E name \in DOMAIN switches : Press(name)
    \/ \E name \in DOMAIN switches : Release(name)
    \/ \E pat \in PatternChoices : RegisterPattern(pat)
    \/ \E name \in PatternNames : StartPattern(name)
    \/ \E name \in PatternNames : StopPattern(name)
    \/ StopAll
    \/ \E now \in Times : Tick(now)

SpecEngine == Init /\ [][NextEngine]_vars

----------------------------------------------------------------------------
(* The patterns over one device: registered, started, stopped and          *)
(* evaluated on the time grid (2 is 0.2 s, 12 is 1.2 s).                   *)

EvalTimes == {0, 2, 5, 7, 10, 12}

NextPatterns ==
    \/ add_pcm(1)
    \/ \E node \in DOMAIN pcms : SetChannelOn(node, 0)
    \/ \E pat \in PatternChoices : RegisterPattern(pat)
    \/ \E name \in PatternNames : StartPattern(name)
    \/ \E name \in PatternNames : StopPattern(name)
    \/ \E name \in PatternNames, now \in EvalTimes : Evaluate(name, now)

SpecPatterns == Init /\ [][NextPatterns]_vars

----------------------------------------------------------------------------
(* The engine's operations as functions of the ownership table: no code    *)
(* writes _channel_owners, so Init draws it, with both patterns registered *)
(* and active over device 1.                                               *)

OwnerChoices ==
    { [k \in {<<1, 0>>} |-> ChannelOwner(<<"pattern", "P1">>, TRUE)],
      [k \in {<<1, 0>>, <<1, 1>>} |-> ChannelOwner(<<"pattern", "P2">>, k[2] = 1)] }

InitOwners ==
    /\ pcms = [n \in {1} |-> PCMDevice(n)]
    /\ switches = [n \in {} |-> LogicalSwitch(n, <<>>, "TOGGLE", <<>>)]
    /\ last = Op("init", "-", 0, 0, "none", "-")
    /\ presses = [n \in {} |-> 0]
    /\ lastEv = [n \in {} |-> "none"]
    /\ \/ engine = PatternEngine
       \/ \E o \in OwnerChoices, p2 \in {q \in PatternChoices : q.name = "P2"} :
              LET both == <<BlinkPattern("P1", <<PatternTarget(1, 0)>>, 10, 5, 0), p2>>
              IN  engine = [patterns |-> both, active |-> both, channel_owners |-> o]
    /\ serial = SerialWorker

SpecOwners == InitOwners /\ [][NextEngine]_vars

----------------------------------------------------------------------------
(* Inbound frames against local commands, over the same channel statuses *)

NextDecode ==
    \/ \E node \in DOMAIN pcms, ch \in {0, 1} : SetChannelOn(node, ch)
    \/ \E node \in DOMAIN pcms, ch \in {0, 1} : SetChannelOff(node, ch)
    \/ \E node \in DOMAIN pcms, msg \in Frames : HandleCanMessage(node, msg)

SpecDecode == InitStatus /\ [][NextDecode]_vars

----------------------------------------------------------------------------
(* Properties *)

\* the bound channels of sw whose requested_on is set
OnSet(P, sw) == {b \in BoundChannels(P, sw) : Req(P, b)}

\* step k mod len(cycles) of a CYCLE switch, as the set of bound channels it names
StepSet(P, sw, k) == Range(sw.cycles[(k % Len(sw.cycles)) + 1]) \cap BoundChannels(P, sw)

\* CYCLE switches with steps, every binding on a registered device, pressed
\* presses[n] times and commanded by nothing else
Counted(n) ==
    /\ switches[n].switch_type = "CYCLE"
    /\ switches[n].cycles # <<>>
    /\ AllLive(pcms, switches[n])
    /\ presses[n] >= 0

----------------------------------------------------------------------------

Acted(op, n) == last.op = op /\ last.sw = n /\ n \in DOMAIN switches

\* C2 as stated: a press() of a TOGGLE switch whose bound channels agree and
\* have no fault (derived state ON or OFF) leaves the derived state flipped,
\* so presses alternate ON, OFF, ON, ...
C2_Alternates ==
    \A n \in DOMAIN switches :
        ( /\ Acted("press", n)
          /\ switches[n].switch_type = "TOGGLE"
          /\ last.err = "none"
          /\ last.ret \in {"ON", "OFF"} )
        => get_state(pcms, switches[n]).ret = (IF last.ret = "ON" THEN "OFF" ELSE "ON")

\* C3: press() of a TOGGLE switch requests every bound channel OFF when the
\* derived state it read was ON, and requests every bound channel ON when it
\* read OFF, PARTIAL, FAULT or UNKNOWN.
C3_TogglePress ==
    \A n \in DOMAIN switches :
        ( /\ Acted("press", n)
          /\ switches[n].switch_type = "TOGGLE"
          /\ last.ret \in SwitchState )
        => /\ last.err = "none"
           /\ \A b \in BoundChannels(pcms, switches[n]) :
                  Req(pcms, b) = (last.ret # "ON")

\* a TOGGLE switch over two channels pressed while PARTIAL
C3_Witness ==
    \E n \in DOMAIN switches :
        /\ Acted("press", n)
        /\ switches[n].switch_type = "TOGGLE"
        /\ last.ret = "PARTIAL"
        /\ Cardinality(OnSet(pcms, switches[n])) = 2

\* C4: after a press() or release() of a MOMENTARY switch has returned, and
\* until another command changes one of its channels, requested_on of every
\* bound channel tells whether that last event was a press.
C4_Momentary ==
    \A n \in DOMAIN switches :
        (switches[n].switch_type = "MOMENTARY" /\ lastEv[n] # "none")
        => \A b \in BoundChannels(pcms, switches[n]) :
               Req(pcms, b) = (lastEv[n] = "press")

\* a MOMENTARY switch over two channels of two devices, just released
C4_Witness ==
    \E n \in DOMAIN switches :
        /\ Acted("release", n)
        /\ switches[n].switch_type = "MOMENTARY"
        /\ lastEv[n] = "release"
        /\ Cardinality(BoundChannels(pcms, switches[n])) = 2
        /\ DOMAIN pcms = NodeIds

\* C5: release() of a TOGGLE or CYCLE switch changes no channel of any device
\* and no switch (its cycle index included).
C5_ReleaseNoOp ==
    [][ ( /\ last'.op = "release"
          /\ last'.sw \in DOMAIN switches
          /\ switches[last'.sw].switch_type \in {"TOGGLE", "CYCLE"} )
        => (pcms' = pcms /\ switches' = switches /\ last'.err = "none") ]_vars

\* a CYCLE switch released at a step that has channels ON
C5_Witness ==
    \E n \in DOMAIN switches :
        /\ Acted("release", n)
        /\ switches[n].switch_type = "CYCLE"
        /\ switches[n].cycle_index > 0
        /\ OnSet(pcms, switches[n]) # {}

----------------------------------------------------------------------------

Chan(P, b) == P[b.node_id].channels[b.channel_index]

Faulty(P, sw) == \E b \in BoundChannels(P, sw) : Chan(P, b).health \in {"SHORT", "OPEN"}

\* C6: for a switch with at least one bound channel, get_state (when it
\* returns) gives FAULT
\* when some bound channel's health is SHORT or OPEN, otherwise OFF when no
\* bound channel is actually on, ON when all are, PARTIAL when they are mixed;
\* requested_on plays no part.
C6_DerivedState ==
    \A n \in DOMAIN switches :
        LET sw == switches[n]
            chans == BoundChannels(pcms, sw)
        IN  (Acted("get_state", n) /\ last.err = "none" /\ chans # {})
            => last.ret =
                 (IF Faulty(pcms, sw) THEN "FAULT"
                  ELSE IF \A b \in chans : ~Chan(pcms, b).actual_on THEN "OFF"
                  ELSE IF \A b \in chans : Chan(pcms, b).actual_on THEN "ON"
                  ELSE "PARTIAL")

\* get_state answers FAULT for two channels that are both actually on and
\* both requested on, one of them with a fault
C6_Witness ==
    \E n \in DOMAIN switches :
        /\ Acted("get_state", n)
        /\ last.ret = "FAULT"
        /\ Cardinality(BoundChannels(pcms, switches[n])) = 2
        /\ \A b \in BoundChannels(pcms, switches[n]) :
               Chan(pcms, b).actual_on /\ Chan(pcms, b).requested_on

NoKnownDevice(P, sw) == \A b \in Range(sw.bindings) : ~HasPcm(P, b.node_id)

\* C7 as stated: get_state returns UNKNOWN iff the binding list is empty.
C7_Original ==
    \A n \in DOMAIN switches :
        (Acted("get_state", n) /\ last.err = "none")
        => (last.ret = "UNKNOWN" <=> switches[n].bindings = <<>>)

\* C7 amended: get_state returns UNKNOWN iff no binding of the switch names a
\* registered device (an empty binding list being one such case).
C7_Unknown ==
    \A n \in DOMAIN switches :
        Acted("get_state", n)
        => (last.ret = "UNKNOWN" <=> NoKnownDevice(pcms, switches[n]))

\* get_state answers UNKNOWN for a switch that has bindings
C7_Witness ==
    \E n \in DOMAIN switches :
        /\ Acted("get_state", n)
        /\ last.ret = "UNKNOWN"
        /\ Len(switches[n].bindings) = 2

\* C8: after set_channel_on(i) with i in [0, N) a read of channel i has
\* requested_on true, after set_channel_off(i) it has requested_on false,
\* also on a device that is not online.
C8_CommandThenRead ==
    (last.op \in {"set_channel_on", "set_channel_off"} /\ ValidChannel(last.ch))
    => /\ last.err = "none"
       /\ get_channel_state(pcms, last.node, last.ch).err = "none"
       /\ get_channel_state(pcms, last.node, last.ch).ret.requested_on
              = (last.op = "set_channel_on")

\* the last channel of an offline device commanded on
C8_Witness ==
    /\ last.op = "set_channel_on"
    /\ last.ch = NUM_CHANNELS - 1
    /\ ~pcms[last.node].online
    /\ pcms[last.node].channels[last.ch].requested_on

\* C9: a device command with an index outside [0, N) fails (the KeyError of
\* self.channels[channel]) and leaves every channel of every device unchanged.
C9_OutOfRange ==
    [][ ( /\ last'.op \in {"set_channel_on", "set_channel_off", "toggle_channel"}
          /\ ~ValidChannel(last'.ch) )
        => (last'.err = "KeyError" /\ pcms' = pcms) ]_vars

\* set_channel_on(-1) has failed on a device with a channel requested on
C9_Witness ==
    /\ last.op = "set_channel_on"
    /\ last.ch = -1
    /\ last.err = "KeyError"
    /\ \E i \in 0 .. NUM_CHANNELS - 1 : pcms[last.node].channels[i].requested_on

LocalCommands ==
    {"set_channel_on", "set_channel_off", "toggle_channel",
     "on", "off", "toggle", "press", "release", "cycle"}

\* the (node_id, channel_index) pairs the operation recorded in op addresses
Addressed(op) ==
    IF op.sw \in DOMAIN switches
    THEN LET sw == switches[op.sw]
         IN  { <<b.node_id, b.channel_index>> : b \in Range(sw.bindings) }
             \cup UNION { { <<b.node_id, b.channel_index>> : b \in Range(sw.cycles[i]) } :
                            i \in DOMAIN sw.cycles }
    ELSE { <<op.node, op.ch>> }

\* the device table with requested_on of the channels in A blanked
Blanked(P, A) ==
    [node \in DOMAIN P |->
        [P[node] EXCEPT !.channels =
            [i \in DOMAIN @ |->
                IF <<node, i>> \in A THEN [@[i] EXCEPT !.requested_on = FALSE] ELSE @[i]]]]

\* C10: a local command of a device or of a switch changes nothing but
\* requested_on of the channels it addresses: index, health, current and
\* actual_on of every channel, and every other channel, stay as they are.
C10_LocalFrame ==
    [][ last'.op \in LocalCommands
        => Blanked(pcms', Addressed(last')) = Blanked(pcms, Addressed(last')) ]_vars

\* a press has requested a channel on that is not actually on
C10_Witness ==
    \E n \in DOMAIN switches :
        /\ Acted("press", n)
        /\ \E b \in BoundChannels(pcms, switches[n]) :
               Chan(pcms, b).requested_on /\ ~Chan(pcms, b).actual_on

----------------------------------------------------------------------------

C12_DuplicateDevice ==
    [][ (last'.op = "add_pcm" /\ last'.node \in DOMAIN pcms)
        => (last'.err = "DuplicateDevice" /\ pcms' = pcms) ]_vars

ManagerCommands ==
    {"PCMManager.set_channel_on", "PCMManager.set_channel_off",
     "PCMManager.get_channel_state"}

\* C13: a registry command or read for a node_id that is not registered fails
\* (the KeyError of self._pcms[node_id]) and changes no channel of any
\* registered device.
C13_UnknownDevice ==
    [][ (last'.op \in ManagerCommands /\ last'.node \notin DOMAIN pcms)
        => (last'.err = "KeyError" /\ pcms' = pcms) ]_vars

\* set_channel_on for an unregistered node_id has failed while the registered
\* device has a channel requested on
C13_Witness ==
    /\ last.op = "PCMManager.set_channel_on"
    /\ last.node \notin DOMAIN pcms
    /\ last.err = "KeyError"
    /\ ValidChannel(last.ch)
    /\ \E n \in DOMAIN pcms : pcms[n].channels[0].requested_on

----------------------------------------------------------------------------

\* every binding of sw names an unknown device or a channel of a registered one
UnknownOrLive(P, sw) ==
    \A b \in Range(sw.bindings) : ~HasPcm(P, b.node_id) \/ ValidChannel(b.channel_index)

SwitchCommands == {"on", "off", "press", "release", "toggle", "cycle", "get_state"}

\* C15: on(), off(), press(), release(), toggle(), cycle() and get_state() of
\* a switch return without an exception for every binding, a binding of an
\* unknown device and a binding with an index outside [0, N) on a registered
\* device included.
C15_NoRaise ==
    (last.op \in SwitchCommands) => last.err = "none"

----------------------------------------------------------------------------

HostCommands ==
    {"SwitchManager.set_switch_on", "SwitchManager.set_switch_off",
     "SwitchManager.toggle_switch", "SwitchManager.get_switch_state",
     "Bridge.setSwitchState", "Bridge.toggleSwitch", "Bridge.pressSwitch",
     "Bridge.releaseSwitch"}

\* the switch name the operation recorded in o addresses; NoSwitch for a
\* button that the button map does not know
HostTarget(o) ==
    IF o.op = "Bridge.handlePicoButton"
    THEN IF o.sw \in DOMAIN button_map THEN button_map[o.sw] ELSE NoSwitch
    ELSE o.sw

\* C16: a host operation on a switch name that is not registered, and a
\* button event whose button is not in the button map (or is mapped to a
\* switch that is not registered), changes no channel and no cycle index and
\* raises nothing.
C16_UnknownName ==
    [][ ( /\ last'.op \in HostCommands \cup {"Bridge.handlePicoButton"}
          /\ HostTarget(last') \notin DOMAIN switches )
        => (pcms' = pcms /\ switches' = switches /\ last'.err = "none") ]_vars

\* an event of the unmapped button has been dropped while a registered switch
\* has a channel requested on
C16_Witness ==
    /\ last.op = "Bridge.handlePicoButton"
    /\ last.sw \notin DOMAIN button_map
    /\ last.err = "none"
    /\ \E n \in DOMAIN switches : OnSet(pcms, switches[n]) # {}

\* what reaching the registered switch named S[name] does, per operation
Reached(o, P, S, name) ==
    CASE o.op = "Bridge.handlePicoButton" ->
            IF o.ret = "pressed" THEN Pressed(P, S, name)
            ELSE Commanded(release(P, S[name]), S)
      [] o.op = "Bridge.pressSwitch" -> Pressed(P, S, name)
      [] o.op = "Bridge.releaseSwitch" -> Commanded(release(P, S[name]), S)
      [] o.op = "Bridge.setSwitchState" ->
            Commanded(IF o.ret = "on" THEN on(P, S[name]) ELSE off(P, S[name]), S)

\* C17: a button event whose button is in the button map and whose mapped
\* switch is registered does what one press() (pressed) or one release() (not
\* pressed) of that switch does, and pressSwitch, releaseSwitch and
\* setSwitchState from the host do what press(), release(), on()/off() of
\* the registered switch they name do.
C17_ReachesSwitch ==
    [][ ( /\ last'.op \in {"Bridge.handlePicoButton", "Bridge.pressSwitch",
                           "Bridge.releaseSwitch", "Bridge.setSwitchState"}
          /\ HostTarget(last') \in DOMAIN switches )
        => LET r == Reached(last', pcms, switches, HostTarget(last'))
           IN  pcms' = r.pcms /\ switches' = r.switches ]_vars

----------------------------------------------------------------------------

\* place of a registered name in _patterns
RegIndex(E, name) == CHOOSE i \in DOMAIN E.patterns : E.patterns[i].name = name

\* among the active patterns that target k, the one registered last
LaterRegistered(E, k) ==
    E.active[CHOOSE i \in Claimants(E, k) :
                \A j \in Claimants(E, k) :
                    RegIndex(E, E.active[j].name) <= RegIndex(E, E.active[i].name)]

\* after the tick (engine E2, devices P2) channel k carries the value that
\* pattern pat desires at time now, recorded under the pattern's name
AppliedBy(E2, P2, k, pat, now) ==
    LET t == PatternTarget(k[1], k[2])
        desired == evaluate(pat, now)
    IN  /\ t \in DOMAIN desired
        /\ k \in DOMAIN E2.channel_owners
        /\ E2.channel_owners[k] = ChannelOwner(<<"pattern", pat.name>>, desired[t])
        /\ P2[k[1]].channels[k[2]].requested_on = desired[t]

\* C18: after a tick, a channel that two active patterns target carries
\* exactly one applied value, the desired value at that tick of the pattern
\* that was registered later, and its ownership record names that pattern.
C18_Arbitration ==
    [][ last'.op = "tick"
        => \A k \in {1} \X {0, 1} :
               (HasPcm(pcms, k[1]) /\ Cardinality(Claimants(engine, k)) >= 2)
               => AppliedBy(engine', pcms', k, LaterRegistered(engine, k), last'.ch) ]_vars

\* C19: when a press() of a switch is followed by a tick, every bound channel
\* that an active pattern claims keeps the value the press requested, and
\* its ownership record names the switch with that value, not the pattern.
C19_ManualOverride ==
    [][ ( /\ last.op = "press" /\ last.err = "none"
          /\ last.sw \in DOMAIN switches
          /\ last'.op = "tick" )
        => \A b \in BoundChannels(pcms, switches[last.sw]) :
               LET k == <<b.node_id, b.channel_index>>
               IN  Claimants(engine, k) # {}
                   => /\ Req(pcms', b) = Req(pcms, b)
                      /\ k \in DOMAIN engine'.channel_owners
                      /\ engine'.channel_owners[k]
                             = ChannelOwner(<<"switch", last.sw>>, Req(pcms, b)) ]_vars

\* C20: when stop_pattern(name) of an active pattern is followed by a tick,
\* no ownership record is left for a target that only the stopped pattern
\* claimed, and a target that a still-active pattern also claims has an
\* ownership record naming a still-active pattern that claims it.  (The
\* pattern objects registered under one name share their targets, so the
\* stopped pattern's targets are those registered under its name.)
C20_StopThenTick ==
    [][ ( /\ last.op = "stop_pattern" /\ last.ret = "stopped"
          /\ last'.op = "tick" )
        => \A k \in Targets(DictGet(engine.patterns, last.sw)) :
               IF Claimants(engine, k) = {}
               THEN k \notin DOMAIN engine'.channel_owners
               ELSE /\ k \in DOMAIN engine'.channel_owners
                    /\ \E i \in Claimants(engine, k) :
                           engine'.channel_owners[k].owner_id
                               = <<"pattern", engine.active[i].name>> ]_vars

----------------------------------------------------------------------------

\* C21: stop_all() leaves the active set and the ownership table empty,
\* whatever they held, and commands no channel: every channel of every
\* device (requested_on and actual_on included) is as it was.
C21_StopAll ==
    [][ last'.op = "stop_all"
        => /\ engine'.active = <<>>
           /\ DOMAIN engine'.channel_owners = {}
           /\ pcms' = pcms ]_vars

\* stop_all() has run on an engine that held ownership records, with a
\* channel still requested on
C21_Witness ==
    /\ last.op = "stop_all"
    /\ last.ret = "held"
    /\ \E n \in DOMAIN pcms : pcms[n].channels[0].requested_on

----------------------------------------------------------------------------

\* the desired value at time now of the pattern that wins target k: a set
\* with that value, empty when no active pattern gives one
WinningValue(E, k, now) ==
    IF Claimants(E, k) = {} THEN {}
    ELSE LET desired == evaluate(LaterRegistered(E, k), now)
             t == PatternTarget(k[1], k[2])
         IN  IF t \in DOMAIN desired THEN {desired[t]} ELSE {}

\* the last-applied value the ownership table records for k, as a set
LastApplied(E, k) ==
    IF k \in DOMAIN E.channel_owners THEN {E.channel_owners[k].value} ELSE {}

\* how many of the commands cs address target k
CommandsFor(cs, k) ==
    Cardinality({ i \in DOMAIN cs : cs[i].node_id = k[1] /\ cs[i].channel_index = k[2] })

----------------------------------------------------------------------------

\* the pattern object the last evaluate() was called on
Evaluated == DictGet(engine.patterns, last.sw)

\* ((now - phase) mod period) / period < duty_cycle, on the integer grid
BlinkOn(pat, now) ==
    ((now - pat.phase_offset_s) % pat.period_s) * 10 < pat.duty_cycle * pat.period_s

\* C23: BlinkPattern.evaluate(now) returns a value for every one of its
\* targets, ON iff ((now - phase) mod period) / period < duty_cycle: with
\* period 1.0 s, duty 0.5, phase 0 that is ON at 0.2, OFF at 0.7, ON at 1.2.
C23_Blink ==
    (last.op = "evaluate" /\ Evaluated.kind = "Blink")
    => LET desired == evaluate(Evaluated, last.ch)
       IN  \A t \in Range(get_targets(Evaluated)) :
               t \in DOMAIN desired /\ desired[t] = BlinkOn(Evaluated, last.ch)

\* floor(now / interval) is even
EvenInterval(pat, now) == (now \div pat.interval_s) % 2 = 0

\* C24: WigWagPattern.evaluate(now) returns a value for every target of both
\* groups: group A ON and group B OFF when floor(now / interval) is even,
\* the reverse when it is odd, so the groups are never ON together.
C24_WigWag ==
    (last.op = "evaluate" /\ Evaluated.kind = "WigWag")
    => LET desired == evaluate(Evaluated, last.ch)
       IN  /\ \A t \in Range(Evaluated.group_a) :
                  t \in DOMAIN desired /\ desired[t] = EvenInterval(Evaluated, last.ch)
           /\ \A t \in Range(Evaluated.group_b) :
                  t \in DOMAIN desired /\ desired[t] = ~EvenInterval(Evaluated, last.ch)

----------------------------------------------------------------------------

\* C26: register_switch under a name that is already registered fails with
\* DuplicateRegistration and leaves the switch registered under that name
\* (type, bindings, cycle index) in place.
C26_DuplicateRegistration ==
    [][ (last'.op = "register_switch" /\ last'.sw \in DOMAIN switches)
        => (last'.err = "DuplicateRegistration" /\ switches' = switches) ]_vars

\* the (node_id, channel_index) pairs bound to sw
BoundKeys(sw) == { <<b.node_id, b.channel_index>> : b \in Range(sw.bindings) }

\* C27: press() and cycle() of a registered switch change requested_on of no
\* channel outside its bound channel set: every step of a CYCLE switch names
\* bound channels only.
C27_WithinBindings ==
    [][ (last'.op \in {"press", "cycle"} /\ last'.sw \in DOMAIN switches)
        => Blanked(pcms', BoundKeys(switches[last'.sw]))
               = Blanked(pcms, BoundKeys(switches[last'.sw])) ]_vars

\* C28: the cycle index of a switch starts at 0, stays in [0, len(cycles))
\* when the step list is not empty, moves to (old + 1) mod len(cycles) in
\* cycle() (called directly or by press() of a CYCLE switch) and is left as
\* it is by every other operation on the registered switch.
C28_CycleIndex ==
    [][ \A n \in DOMAIN switches' :
          LET new == switches'[n]
          IN  /\ new.cycles # <<>> => new.cycle_index \in 0 .. Len(new.cycles) - 1
              /\ IF n \notin DOMAIN switches \/ (last'.op = "register_switch" /\ last'.sw = n)
                 THEN new.cycle_index = 0
                 ELSE IF /\ last'.sw = n
                         /\ new.cycles # <<>>
                         /\ \/ last'.op = "cycle"
                            \/ last'.op = "press" /\ new.switch_type = "CYCLE"
                 THEN new.cycle_index = (switches[n].cycle_index + 1) % Len(new.cycles)
                 ELSE new.cycle_index = switches[n].cycle_index ]_vars

\* a CYCLE switch pressed once per step: the index has wrapped to 0
C28_Witness ==
    \E n \in DOMAIN switches :
        /\ Acted("press", n)
        /\ switches[n].switch_type = "CYCLE"
        /\ switches[n].cycles # <<>>
        /\ presses[n] = Len(switches[n].cycles)
        /\ switches[n].cycle_index = 0

----------------------------------------------------------------------------

C30_ActiveRegistered ==
    [][ /\ \A i \in DOMAIN engine'.active :
               DictHas(engine'.patterns, engine'.active[i].name)
        /\ (last'.op = "start_pattern" /\ ~DictHas(engine.patterns, last'.sw))
               => (engine' = engine /\ last'.err = "none") ]_vars

\* start_pattern on the never-registered name has been dropped while another
\* pattern is active
C30_Witness ==
    /\ last.op = "start_pattern"
    /\ last.ret = "unknown"
    /\ ~DictHas(engine.patterns, last.sw)
    /\ engine.active # <<>>

----------------------------------------------------------------------------
(* C32: a CYCLE switch with no steps *)

\* the switch n is a CYCLE switch with an empty list of steps
NoSteps(S, n) ==
    n \in DOMAIN S /\ S[n].switch_type = "CYCLE" /\ S[n].cycles = <<>>

----------------------------------------------------------------------------
(* C31: button events from the serial reader thread *)

\* the button events _on_line emits for a sequence of lines, in order
RECURSIVE EventsOf(_)
EventsOf(lines) ==
    IF lines = <<>> THEN <<>>
    ELSE LET ev == on_line(Head(lines))
         IN  (IF ev.emit THEN <<[name |-> ev.name, pressed |-> ev.pressed]>> ELSE <<>>)
             \o EventsOf(Tail(lines))

IsPrefix(a, b) == Len(a) <= Len(b) /\ SubSeq(b, 1, Len(a)) = a

\* the threads that are inside a handler
Busy == {t \in Threads : serial.running[t].kind # "idle"}

\* C31: button events read by the serial reader thread are handled one at a
\* time and in the order their lines were read: at most one thread is inside
\* a handler (a line or button delivery, or a slot called by the host user
\* interface), and the button events handled so far are an initial part of
\* the events of the lines read, in reading order, so a PRESS line followed
\* by a RELEASE line is never handled as release then press.
C31_OneAtATimeInOrder ==
    /\ Cardinality(Busy) <= 1
    /\ IsPrefix(serial.applied, EventsOf(serial.readLog))

\* PRESS LIGHT, an unhandled line and RELEASE LIGHT were read, and both button
\* events have been handled, the press first
C31_Witness ==
    /\ last.op = "Bridge.handlePicoButton"
    /\ serial.readLog = <<<<"PRESS", "LIGHT">>, <<"BOOT">>, <<"RELEASE", "LIGHT">>>>
    /\ serial.applied = <<[name |-> "LIGHT", pressed |-> TRUE],
                          [name |-> "LIGHT", pressed |-> FALSE]>>
    /\ Busy = {}

====
